---- MODULE Spec2Model ----
(***************************************************************************)
(* Model of the tic-tac-toe session server.                                *)
(*   Spec       the actor Server::run (src/src/server.rs) with its         *)
(*              handlers, the registry of contexts, the request queue and  *)
(*              reply slots, and the connection tasks as the actor sees    *)
(*              them                                                       *)
(*   SpecStale  Spec with requests queued under unregistered ids           *)
(*   SpecOrder  Spec with, per connection, what the peer wrote, what was   *)
(*              handled and what was written back                          *)
(*   SpecNotify one connection task and its broadcast receiver             *)
(*   SpecRecv   Connection::recv on a socket (src/src/connection.rs)       *)
(*   SpecTask   one connection task between its socket, the actor and the  *)
(*              broadcast channel, a step per poll of its futures          *)
(*   SpecLive   Spec with working sockets and fair scheduling              *)
(*   SpecGame   a game played through Game::mark (src/src/game.rs)         *)
(*   SpecBoard  has_game_concluded on every board                          *)
(***************************************************************************)
EXTENDS Integers, Sequences, FiniteSets, TLC

\* ---------------------------------------------------------------- bounds
\* number of sockets the listener accepts in a run
MaxConns == 2

\* notifications the broadcast channel retains for a receiver (32 in the
\* program), notifications published in a run, and events of one task in a run
BroadcastCap == 2

MaxPublished == 4

MaxEvents == 4

\* number of requests a peer writes on one connection
MaxSent == 2

\* number of queued requests whose connection id is not registered
MaxStale == 1

\* number of messages a peer writes before it closes its socket
MaxMsgs == 2

\* ------------------------------------------------------------ value types
\* game::Player and its negation
Player == {"O", "X"}

Not(p) == IF p = "O" THEN "X" ELSE "O"

\* Option<Player>
OptPlayer == Player \cup {"None"}

\* peer addresses a socket can come from
Addrs == {"127.0.0.1", "10.0.0.7"}

is_loopback(addr) == addr = "127.0.0.1"

\* Group: Host(Option<Player>) | Observer | Player(Player)
GroupHost(p) == [tag |-> "Host", player |-> p]

GroupObserver == [tag |-> "Observer", player |-> "None"]

GroupPlayer(p) == [tag |-> "Player", player |-> p]

\* ConnectionContext::is_host
is_host(cx) == cx.group.tag = "Host"

\* ConnectionContext::player
player(cx) == cx.group.player

\* Board::default and Game::new
NewBoard == [i \in 1..9 |-> "None"]

NoGame == [board |-> <<>>, turn |-> "None"]

GameNew(first_turn) == [board |-> NewBoard, turn |-> first_turn]

\* Request values a connection task forwards (Disconnect is never forwarded)
ChatMsgs == {"hi"}

Tiles == {0}

Req(type, p, msg, tile) == [type |-> type, player |-> p, msg |-> msg, tile |-> tile]

JoinMatch(p) == Req("JoinMatch", p, "", 0)

GetGameInfo == Req("GetGameInfo", "None", "", 0)

Chat(msg) == Req("Chat", "None", msg, 0)

PlayTurn(tile) == Req("PlayTurn", "None", "", tile)

Disconnect == Req("Disconnect", "None", "", 0)

Requests ==
    {JoinMatch(p) : p \in OptPlayer} \cup {GetGameInfo}
        \cup {Chat(m) : m \in ChatMsgs} \cup {PlayTurn(t) : t \in Tiles}

\* Result<Response, Error>
Rsp(ok, tag, p, text, g) == [ok |-> ok, tag |-> tag, player |-> p, text |-> text, game |-> g]

Ack == Rsp(TRUE, "Ack", "None", "", NoGame)

Joined(p) == Rsp(TRUE, "Joined", p, "", NoGame)

GameInfo(g) == Rsp(TRUE, "GameInfo", "None", "", g)

Err(tag) == Rsp(FALSE, tag, "None", "", NoGame)

ErrText(tag, text) == Rsp(FALSE, tag, "None", text, NoGame)

\* the empty oneshot reply slot
NoRsp == Rsp(FALSE, "Empty", "None", "", NoGame)

\* Action of Server::run: NewConnection | Disconnected | Request, kept as the
\* variant and, for a Request, the variant of the request it carries
Action(kind, type) == [kind |-> kind, type |-> type]

\* Notification values
NotifChat(from, msg) == [tag |-> "Chat", from |-> from, msg |-> msg]

NotifServerInfo(text) == [tag |-> "ServerInfo", from |-> "", msg |-> text]

\* ------------------------------------------------------------------ state
VARIABLES
    contexts,      \* Server.contexts: ConnectionId -> [group, addr]
    next_conn_id,  \* Server.next_conn_id
    state,         \* ServerState tag
    game,          \* the Game carried by ServerState::Playing, NoGame otherwise
    req_rx,        \* the mpsc request channel, oldest first
    connections,   \* Server.connections (JoinSet): task id -> position of the task
    reply,         \* the oneshot slot of each task's forwarded request
    action,        \* the Action the run loop processed last
    published,     \* notifications that Action sent on the broadcast
    actor          \* "running", or "panicked" once Server::run has unwound

\* a game played through Game::mark (game.rs)
VARIABLES
    board,         \* Game.board: tile index + 1 -> Option<Player>
    turn,          \* InProgress.turn, "None" once the game is a Game<Conclusion>
    result,        \* the variant of the TurnResult the last mark returned
    conclusion     \* what has_game_concluded returned last

\* one Connection reading its socket (connection.rs)
VARIABLES
    peer_msgs,     \* the requests the peer wrote, in order
    wire,          \* the reads its bytes arrive in, each a piece of the byte stream
    reads,         \* the reads read_buf has not returned yet
    buffer,        \* Connection.buffer
    returned,      \* what the calls of recv returned so far, in order
    reports        \* number of InvalidMessage reports recv wrote to the peer

\* what each peer wrote and what came of it, per connection id
VARIABLES
    script,        \* the requests the peer writes on its socket, in order
    nread,         \* how many of them the task's recv calls have consumed
    handled,       \* the requests handle_request took for the connection, with replies
    written        \* the replies the task wrote to the socket, with their requests

\* one connection task and its broadcast receiver (handle_connection)
VARIABLES
    inbox,         \* notifications the channel retains that the receiver has not taken
    skipped,       \* notifications overwritten before the receiver took them
    npublished,    \* notifications sent on the channel so far
    sender_alive,  \* FALSE once the Server, which owns the Sender, is dropped
    task,          \* "select" while the task loops, else how it ended
    events         \* what the task printed and wrote, in order

\* one connection task between its socket, the actor and the broadcast channel
VARIABLES
    avail,         \* bytes that arrived on the socket and read_buf has not taken
    eof,           \* TRUE once the peer has closed its end and the FIN arrived
    rx             \* the oneshot slot of the request the task forwarded

server_vars == <<contexts, next_conn_id, state, game, req_rx, connections, reply, action,
                 published, actor>>

game_vars == <<board, turn, result, conclusion>>

recv_vars == <<peer_msgs, wire, reads, buffer, returned, reports>>

order_vars == <<script, nread, handled, written>>

notify_vars == <<inbox, skipped, npublished, sender_alive, task, events>>

task_vars == <<avail, eof, rx>>

vars == <<server_vars, game_vars, recv_vars, order_vars, notify_vars, task_vars>>

\* ------------------------------------------------- handle_request, by arm
\* what one evaluation of the match produces: the reply r, the requester's
\* group, the ServerState and game afterwards, the notifications sent, and
\* whether the arm panicked before a reply was built
Out(r, group, st, g, notif, panic) ==
    [r |-> r, group |-> group, state |-> st, game |-> g, notif |-> notif, panic |-> panic]

\* variant: every sender is labelled with its address
from_label_addr(cx) == cx.addr

\* the `from` label of a Chat notification
from_label(cx) ==
    CASE cx.group.tag = "Observer" -> cx.addr
      [] cx.group.tag = "Player" -> cx.group.player
      [] cx.group.tag = "Host" /\ cx.group.player = "None" -> "host"
      [] OTHER -> cx.group.player \o " (host)"

\* (Chat(msg), _): broadcast.send(..).unwrap() fails when no receiver is left
ChatArm(cx, msg, st, g, receivers) ==
    IF receivers = 0
    THEN Out(NoRsp, cx.group, st, g, <<>>, TRUE)
    ELSE Out(Ack, cx.group, st, g, <<NotifChat(from_label(cx), msg)>>, FALSE)

\* (JoinMatch(player), WaitingForHost) if cx.get().is_host()
JoinWaitingForHost(cx, req_player, g) ==
    Out(Joined(req_player), GroupHost(req_player), "WaitingForPlayers", g, <<>>, FALSE)

\* the colors find_map can return: any color held by a registered connection
\* (HashMap iteration order is unspecified), "None" when nobody holds one
already_joined(ctxs) ==
    LET held == {ctxs[i].group.player : i \in DOMAIN ctxs} \ {"None"}
    IN IF held = {} THEN {"None"} ELSE held

\* variant: the requested color wins over the opposite of the joined one
join_as_requested(req_join_as, joined) ==
    IF req_join_as /= "None" THEN req_join_as
    ELSE IF joined /= "None" THEN Not(joined)
    ELSE "O"

\* the color given to the requester
join_as(req_join_as, joined) ==
    IF joined /= "None" THEN Not(joined)
    ELSE IF req_join_as = "None" THEN "O"
    ELSE req_join_as

\* the requester's group after a successful join
new_group(group, color) ==
    IF group.tag = "Observer" THEN GroupPlayer(color) ELSE GroupHost(color)

\* variant: a first join in WaitingForPlayers falls back to WaitingForHost
state_after_join_reset(st, joined) ==
    IF joined /= "None" THEN "Playing" ELSE "WaitingForHost"

\* ServerState after a join in WaitingForPlayers
state_after_join(st, joined) ==
    IF joined /= "None" THEN "Playing" ELSE st

\* variant: the color that joined first moves first
game_after_join_first(g, joined) ==
    IF joined /= "None" THEN GameNew(joined) ELSE g

\* the game after a join in WaitingForPlayers
game_after_join(g, joined) ==
    IF joined /= "None" THEN GameNew("O") ELSE g

\* variant: no check that the requester already holds a color
JoinWaitingForPlayers_rejoin(cx, req_join_as, joined, st, g) ==
    Out(Joined(join_as(req_join_as, joined)),
        new_group(cx.group, join_as(req_join_as, joined)),
        state_after_join(st, joined), game_after_join(g, joined), <<>>, FALSE)

\* (JoinMatch(req_join_as), WaitingForPlayers)
JoinWaitingForPlayers(cx, req_join_as, joined, st, g) ==
    IF cx.group.player = "None"
    THEN Out(Joined(join_as(req_join_as, joined)),
             new_group(cx.group, join_as(req_join_as, joined)),
             state_after_join(st, joined), game_after_join(g, joined), <<>>, FALSE)
    ELSE Out(ErrText("InvalidParam", "already joined"), cx.group, st, g, <<>>, FALSE)

\* variant: the catch-all arms come right after the two Playing arms
RemainingArms_catchall(cx, req, st, g) ==
    IF req.type = "GetGameInfo" /\ st = "Playing"
    THEN Out(GameInfo(g), cx.group, st, g, <<>>, FALSE)
    ELSE IF req.type = "PlayTurn" /\ st = "Playing"
    THEN Out(NoRsp, cx.group, st, g, <<>>, TRUE)
    ELSE IF st = "WaitingForHost"
    THEN Out(Err("WaitingForHost"), cx.group, st, g, <<>>, FALSE)
    ELSE Out(ErrText("InvalidMessage", "not implemented"), cx.group, st, g, <<>>, FALSE)

\* the arms below the two join arms, in source order
RemainingArms(cx, req, st, g) ==
    IF req.type = "GetGameInfo" /\ st = "Playing"
    THEN Out(GameInfo(g), cx.group, st, g, <<>>, FALSE)
    ELSE IF req.type = "PlayTurn" /\ st = "Playing"
    THEN Out(NoRsp, cx.group, st, g, <<>>, TRUE)            \* todo!()
    ELSE IF req.type = "PlayTurn"
    THEN Out(Err("NotAllowed"), cx.group, st, g, <<>>, FALSE)
    ELSE IF req.type = "GetGameInfo"
    THEN Out(Err("NotAllowed"), cx.group, st, g, <<>>, FALSE)
    ELSE IF req.type = "JoinMatch" /\ st = "Playing"
    THEN Out(Err("MatchInProgress"), cx.group, st, g, <<>>, FALSE)
    ELSE IF st = "WaitingForHost"
    THEN Out(Err("WaitingForHost"), cx.group, st, g, <<>>, FALSE)
    ELSE Out(ErrText("InvalidMessage", "not implemented"), cx.group, st, g, <<>>, FALSE)

\* variant: a request of an unknown connection is refused with an error
UnknownConnection_refused(st, g) ==
    Out(Err("NotAllowed"), GroupObserver, st, g, <<>>, FALSE)

\* let Entry::Occupied(cx) = .. else { return }: the request is dropped with
\* its reply sender, nothing is sent and nothing is written
UnknownConnection(st, g) ==
    Out(NoRsp, GroupObserver, st, g, <<>>, FALSE)

\* match (req, &self.state)
MatchRequest(cx, req, st, g, joined, receivers) ==
    IF req.type = "Chat"
    THEN ChatArm(cx, req.msg, st, g, receivers)
    ELSE IF req.type = "JoinMatch" /\ st = "WaitingForHost" /\ is_host(cx)
    THEN JoinWaitingForHost(cx, req.player, g)
    ELSE IF req.type = "JoinMatch" /\ st = "WaitingForPlayers"
    THEN JoinWaitingForPlayers(cx, req.player, joined, st, g)
    ELSE RemainingArms(cx, req, st, g)

\* tasks that still hold a broadcast receiver: a task that returned or
\* panicked has dropped its ServerHandle
LiveTasks == {c \in DOMAIN connections : connections[c] \in {"select", "awaiting"}}

\* variant: the departure is not announced
Broadcast_silent(notif, receivers) == <<>>

\* let _ = broadcast.send(notif): the channel takes the value only while a
\* receiver exists, and the error is ignored
Broadcast(notif, receivers) ==
    IF receivers = 0 THEN <<>> ELSE <<notif>>

\* variant: the id counter is not advanced
NextId_stuck(id) == id

\* self.next_conn_id += 1
NextId(id) == id + 1

\* ------------------------------------------------------------ game engine
\* TileId::A1 .. TileId::C3
TileIds == 0..8

\* Option<Conclusion>
Win(p) == [tag |-> "Win", player |-> p]

Draw == [tag |-> "Draw", player |-> "None"]

NoConclusion == [tag |-> "None", player |-> "None"]

\* Board::mark_count
mark_count(b) == Cardinality({i \in 1..9 : b[i] /= "None"})

\* Board::mark
BoardMark(b, tile, p) == [b EXCEPT ![tile + 1] = p]

\* variant: every tile can be marked
is_valid_mark_any(b, tile) == TRUE

\* Game::is_valid_mark
is_valid_mark(b, tile) == b[tile + 1] = "None"

\* the checks of has_game_concluded below the mark_count test, in source order
LineChecks(b) ==
    LET a1 == b[1]
        b1 == b[2]
        c1 == b[3]
        a2 == b[4]
        b2 == b[5]
        c2 == b[6]
        a3 == b[7]
        b3 == b[8]
        c3 == b[9]
    IN IF a1 /= "None" /\ ((a1 = a3 /\ a1 = a2) \/ (a1 = c1 /\ a1 = b1) \/ (a1 = c3 /\ a1 = b2))
       THEN Win(a1)
       ELSE IF c1 /= "None" /\ ((c1 = c3 /\ c1 = c2) \/ (c1 = a3 /\ c1 = b2))
       THEN Win(c1)
       ELSE IF b2 /= "None" /\ ((b2 = a2 /\ b2 = c2) \/ (b2 = b1 /\ b2 = b3))
       THEN Win(b2)
       ELSE IF a3 /= "None" /\ (a3 = c3 /\ c3 = b3)
       THEN Win(a3)
       ELSE IF mark_count(b) = 9
       THEN Draw
       ELSE NoConclusion

\* variant: a board with three marks is not looked at
has_game_concluded_skip3(b) ==
    IF mark_count(b) <= 3 THEN NoConclusion ELSE LineChecks(b)

\* Game::has_game_concluded
has_game_concluded(b) ==
    IF mark_count(b) < 3 THEN NoConclusion ELSE LineChecks(b)

\* the checks of main.rs's has_game_concluded below its mark_count test, in
\* source order; its tiles A0..C2 have the indices of A1..C3
MainLineChecks(b) ==
    LET a0 == b[1]
        b0 == b[2]
        c0 == b[3]
        a1 == b[4]
        b1 == b[5]
        c1 == b[6]
        a2 == b[7]
        b2 == b[8]
        c2 == b[9]
    IN IF a0 /= "None" /\ ((a0 = a2 /\ a0 = a1) \/ (a0 = c0 /\ a0 = b0) \/ (a0 = c2 /\ a0 = b1))
       THEN Win(a0)
       ELSE IF c0 /= "None" /\ ((c0 = c2 /\ c0 = c1) \/ (c0 = a2 /\ c0 = b1))
       THEN Win(c0)
       ELSE IF b1 /= "None" /\ ((b1 = a1 /\ b1 = c1) \/ (b1 = b0 /\ b1 = b2))
       THEN Win(b1)
       ELSE IF a2 /= "None" /\ (a2 = c2 /\ c2 = b2)
       THEN Win(a2)
       ELSE IF mark_count(b) = 9
       THEN Draw
       ELSE NoConclusion

\* variant: a board with five marks is not looked at
has_game_concluded_main_skip5(b) ==
    IF mark_count(b) <= 5 THEN NoConclusion ELSE MainLineChecks(b)

\* Game::has_game_concluded of main.rs
has_game_concluded_main(b) ==
    IF mark_count(b) <= 3 THEN NoConclusion ELSE MainLineChecks(b)

\* variant: the turn stays with the player who marked
next_turn_keep(p) == p

\* Game::next_turn
next_turn(p) == Not(p)

\* ---------------------------------------------------------------- framing
\* the requests a peer writes
WireRequests == {JoinMatch("None"), Chat("hi"), GetGameInfo}

\* the text of a request travels as two pieces, cut where a read may end:
\* `JoinMatch(` `None)`, `Chat("h` `i")`, `GetGame` `Info`
Piece(req, part) == [req |-> req, part |-> part]

\* ron::ser::to_string followed by a newline
Encode(req) == <<Piece(req, 1), Piece(req, 2)>>

RECURSIVE EncodeAll(_)
EncodeAll(msgs) ==
    IF msgs = <<>> THEN <<>> ELSE Encode(Head(msgs)) \o EncodeAll(Tail(msgs))

\* ron::de::from_bytes on the buffer: a value only when the buffer holds
\* exactly one message; Eof when it is empty or ends where the parser wants
\* more input; any other error for a cut inside a string or an identifier,
\* and for bytes that follow a complete message (TrailingCharacters)
from_bytes(buf) ==
    IF buf = <<>>
    THEN [code |-> "Eof", req |-> Disconnect]
    ELSE IF Len(buf) = 1 /\ buf[1].part = 1
    THEN [code |-> IF buf[1].req.type = "JoinMatch" THEN "Eof" ELSE "Invalid",
          req |-> Disconnect]
    ELSE IF Len(buf) = 2 /\ buf = Encode(buf[1].req)
    THEN [code |-> "Ok", req |-> buf[1].req]
    ELSE [code |-> "Invalid", req |-> Disconnect]

\* anyhow::Result<Option<T>> of recv
RecvSome(req) == [tag |-> "Some", req |-> req]

RecvNone == [tag |-> "None", req |-> Disconnect]

RecvErr == [tag |-> "Err", req |-> Disconnect]

\* the loop of Connection::recv from the decode attempt on: pending is what
\* the socket still delivers, n the reports written so far
RECURSIVE recv_loop(_, _, _)
recv_loop(buf, pending, n) ==
    LET d == from_bytes(buf)
        invalid == d.code = "Invalid"
        kept == IF invalid THEN <<>> ELSE buf
        m == IF invalid THEN n + 1 ELSE n
    IN IF d.code = "Ok"
       THEN [ret |-> RecvSome(d.req), buffer |-> buf, reads |-> pending, reports |-> n]
       ELSE IF pending = <<>>
       THEN \* read_buf returns 0
            [ret |-> IF kept = <<>> THEN RecvNone ELSE RecvErr,
             buffer |-> kept, reads |-> pending, reports |-> m]
       ELSE recv_loop(kept \o Head(pending), Tail(pending), m)

\* Connection::recv: the buffer is cleared, then the loop runs
recv(buf, pending, n) == recv_loop(<<>>, pending, n)

\* the stream s cut into reads: a read ends after each position in cuts
RECURSIVE Split(_, _, _)
Split(s, cuts, from) ==
    IF from > Len(s)
    THEN <<>>
    ELSE LET ends == {e \in cuts \cup {Len(s)} : e >= from}
             end == CHOOSE e \in ends : \A f \in ends : e <= f
         IN <<SubSeq(s, from, end)>> \o Split(s, cuts, end + 1)

\* ------------------------------------------------------------------ Init
\* no Connection is reading
RecvIdle ==
    /\ peer_msgs = <<>>
    /\ wire = <<>>
    /\ reads = <<>>
    /\ buffer = <<>>
    /\ returned = <<>>
    /\ reports = 0

\* the server is not running
ServerIdle ==
    /\ contexts = <<>>
    /\ next_conn_id = 0
    /\ state = "WaitingForHost"
    /\ game = NoGame
    /\ req_rx = <<>>
    /\ connections = <<>>
    /\ reply = <<>>
    /\ action = Action("None", "None")
    /\ published = <<>>
    /\ actor = "running"

\* no task is subscribed
NotifyIdle ==
    /\ inbox = <<>>
    /\ skipped = 0
    /\ npublished = 0
    /\ sender_alive = TRUE
    /\ task = "select"
    /\ events = <<>>

\* no task is followed between its socket and the actor
TaskIdle ==
    /\ avail = <<>>
    /\ eof = FALSE
    /\ rx = "None"

\* no peer has written anything
OrderIdle ==
    /\ script = [c \in 0..(MaxConns - 1) |-> <<>>]
    /\ nread = [c \in 0..(MaxConns - 1) |-> 0]
    /\ handled = [c \in 0..(MaxConns - 1) |-> <<>>]
    /\ written = [c \in 0..(MaxConns - 1) |-> <<>>]

\* no game is being played through the engine
GameIdle ==
    /\ board = NewBoard
    /\ turn = "None"
    /\ result = "None"
    /\ conclusion = NoConclusion

Init ==
    /\ GameIdle
    /\ RecvIdle
    /\ OrderIdle
    /\ NotifyIdle
    /\ TaskIdle
    /\ contexts = <<>>
    /\ next_conn_id = 0
    /\ state = "WaitingForHost"
    /\ game = NoGame
    /\ req_rx = <<>>
    /\ connections = <<>>
    /\ reply = <<>>
    /\ action = Action("None", "None")
    /\ published = <<>>
    /\ actor = "running"

\* --------------------------------------------------------- actor actions
\* Server::handle_new_connection, for a socket accepted from addr
HandleNewConnection(addr) ==
    /\ actor = "running"
    /\ next_conn_id < MaxConns
    /\ next_conn_id' = NextId(next_conn_id)
    /\ action' = Action("NewConnection", "None")
    /\ published' = <<>>
    /\ IF next_conn_id \in DOMAIN contexts
       THEN \* assert!(!contains_key): "connection id already in use"
            /\ actor' = "assert_failed"
            /\ UNCHANGED <<contexts, connections, reply>>
       ELSE /\ connections' = (next_conn_id :> "select") @@ connections
            /\ reply' = (next_conn_id :> NoRsp) @@ reply
            /\ contexts' = (next_conn_id :>
                    [group |-> IF is_loopback(addr) THEN GroupHost("None") ELSE GroupObserver,
                     addr |-> addr]) @@ contexts
            /\ UNCHANGED actor
    /\ UNCHANGED <<state, game, req_rx>>

\* Server::handle_request on the oldest queued request
HandleRequest ==
    /\ actor = "running"
    /\ req_rx /= <<>>
    /\ req_rx' = Tail(req_rx)
    /\ action' = Action("Request", Head(req_rx).req.type)
    /\ LET conn_id == Head(req_rx).conn_id
           req == Head(req_rx).req
       IN IF conn_id \notin DOMAIN contexts
          THEN \E out \in {UnknownConnection(state, game)} :
               /\ published' = out.notif
               /\ state' = out.state
               /\ game' = out.game
               /\ reply' = IF out.r = NoRsp THEN reply ELSE (conn_id :> out.r) @@ reply
               /\ UNCHANGED <<contexts, actor>>
          ELSE \E joined \in already_joined(contexts) :
               \E out \in {MatchRequest(contexts[conn_id], req, state, game, joined,
                                        Cardinality(LiveTasks))} :
               LET delivered == ~out.panic /\ conn_id \in DOMAIN connections
                                   /\ connections[conn_id] = "awaiting"
               IN /\ contexts' = [contexts EXCEPT ![conn_id].group = out.group]
                  /\ state' = out.state
                  /\ game' = out.game
                  /\ published' = out.notif
                  \* rsp.send(r).unwrap() fails when the receiver is gone
                  /\ reply' = IF delivered THEN [reply EXCEPT ![conn_id] = out.r] ELSE reply
                  /\ actor' = IF delivered THEN "running" ELSE "panicked"
    /\ UNCHANGED <<next_conn_id, connections>>

\* Server::handle_disconnect for a task join_next reports as finished
HandleDisconnect(conn_id) ==
    /\ actor = "running"
    /\ conn_id \in DOMAIN connections
    /\ connections[conn_id] = "done"
    /\ action' = Action("Disconnected", "None")
    /\ connections' = [c \in DOMAIN connections \ {conn_id} |-> connections[c]]
    /\ reply' = [c \in DOMAIN reply \ {conn_id} |-> reply[c]]
    /\ IF conn_id \in DOMAIN contexts
       THEN /\ contexts' = [c \in DOMAIN contexts \ {conn_id} |-> contexts[c]]
            /\ published' = Broadcast(NotifServerInfo(contexts[conn_id].addr \o " disconnected"),
                                      Cardinality(LiveTasks))
            /\ UNCHANGED actor
       ELSE \* expect("connections cannot be removed twice")
            /\ actor' = "expect_failed"
            /\ UNCHANGED <<contexts, published>>
    /\ UNCHANGED <<next_conn_id, state, game, req_rx>>

\* Server::run when join_next reports a task that panicked: conn_id.unwrap()
\* on the JoinError unwinds the run loop before any handler is called
HandleJoinError(conn_id) ==
    /\ actor = "running"
    /\ conn_id \in DOMAIN connections
    /\ connections[conn_id] = "panicked"
    /\ actor' = "join_error"
    /\ connections' = [c \in DOMAIN connections \ {conn_id} |-> connections[c]]
    /\ UNCHANGED <<contexts, next_conn_id, state, game, req_rx, reply, action, published>>

\* ------------------------------------------------ connection task actions
\* handle_connection decodes a request and forwards it (ServerHandle::request)
ConnRequest(c, req) ==
    /\ actor = "running"
    /\ c \in DOMAIN connections
    /\ connections[c] = "select"
    /\ req_rx' = Append(req_rx, [conn_id |-> c, req |-> req])
    /\ connections' = [connections EXCEPT ![c] = "awaiting"]
    /\ UNCHANGED <<contexts, next_conn_id, state, game, reply, action, published, actor>>

\* the awaited reply arrives and is written to the socket; a failed write
\* ends the task
ConnReply(c, sent) ==
    /\ actor = "running"
    /\ c \in DOMAIN connections
    /\ connections[c] = "awaiting"
    /\ reply[c] /= NoRsp
    /\ reply' = [reply EXCEPT ![c] = NoRsp]
    /\ connections' = [connections EXCEPT ![c] = IF sent THEN "select" ELSE "done"]
    /\ UNCHANGED <<contexts, next_conn_id, state, game, req_rx, action, published, actor>>

\* the task leaves its loop: EOF, a Disconnect request, or a transport error
ConnClose(c) ==
    /\ actor = "running"
    /\ c \in DOMAIN connections
    /\ connections[c] = "select"
    /\ connections' = [connections EXCEPT ![c] = "done"]
    /\ UNCHANGED <<contexts, next_conn_id, state, game, req_rx, reply, action, published, actor>>

\* Connection::recv reads a malformed message and the write of its
\* InvalidMessage report fails: send(..).await.unwrap() panics the task
ConnPanic(c) ==
    /\ actor = "running"
    /\ c \in DOMAIN connections
    /\ connections[c] = "select"
    /\ connections' = [connections EXCEPT ![c] = "panicked"]
    /\ UNCHANGED <<contexts, next_conn_id, state, game, req_rx, reply, action, published, actor>>

\* what the server leaves alone
ServerFrame == UNCHANGED <<game_vars, recv_vars, order_vars, notify_vars, task_vars>>

Next ==
    \/ \E addr \in Addrs : HandleNewConnection(addr) /\ ServerFrame
    \/ HandleRequest /\ ServerFrame
    \/ \E c \in 0..(MaxConns - 1) : HandleDisconnect(c) /\ ServerFrame
    \/ \E c \in 0..(MaxConns - 1), req \in Requests : ConnRequest(c, req) /\ ServerFrame
    \/ \E c \in 0..(MaxConns - 1), sent \in BOOLEAN : ConnReply(c, sent) /\ ServerFrame
    \/ \E c \in 0..(MaxConns - 1) : ConnClose(c) /\ ServerFrame
    \/ \E c \in 0..(MaxConns - 1) : ConnPanic(c) /\ ServerFrame
    \/ \E c \in 0..(MaxConns - 1) : HandleJoinError(c) /\ ServerFrame

Spec == Init /\ [][Next]_vars

\* ------------------------------------ fair scheduling and working sockets
\* the steps of Spec when no write to a socket fails
NextLive ==
    \/ \E addr \in Addrs : HandleNewConnection(addr) /\ ServerFrame
    \/ HandleRequest /\ ServerFrame
    \/ \E c \in 0..(MaxConns - 1) : HandleDisconnect(c) /\ ServerFrame
    \/ \E c \in 0..(MaxConns - 1), req \in Requests : ConnRequest(c, req) /\ ServerFrame
    \/ \E c \in 0..(MaxConns - 1) : ConnReply(c, TRUE) /\ ServerFrame
    \/ \E c \in 0..(MaxConns - 1) : ConnClose(c) /\ ServerFrame

\* the runtime polls every task that is ready: the actor takes a queued
\* request, and a task whose reply has arrived writes it
Fairness ==
    /\ WF_vars(HandleRequest /\ ServerFrame)
    /\ \A c \in 0..(MaxConns - 1) : WF_vars(ConnReply(c, TRUE) /\ ServerFrame)

SpecLive == Init /\ [][NextLive]_vars /\ Fairness

\* ------------------------------- requests of connections not in the registry
\* ids that are not registered and never will be: those of removed
\* connections, and the first id the listener does not hand out
StaleIds ==
    {id \in 0..MaxConns :
        /\ id \notin DOMAIN contexts
        /\ id \notin DOMAIN connections
        /\ id < next_conn_id \/ id = MaxConns}

StaleQueued == {i \in 1..Len(req_rx) : req_rx[i].conn_id \notin DOMAIN contexts}

\* a ContextedRequest (conn_id, req, rsp) whose conn_id has no context enters
\* the queue; rsp is the sender of a fresh reply slot
StaleRequest(id, req) ==
    /\ actor = "running"
    /\ id \in StaleIds
    /\ Cardinality(StaleQueued) < MaxStale
    /\ req_rx' = Append(req_rx, [conn_id |-> id, req |-> req])
    /\ reply' = (id :> NoRsp) @@ reply
    /\ UNCHANGED <<contexts, next_conn_id, state, game, connections, action, published, actor>>

NextStale ==
    \/ Next
    \/ \E id \in 0..MaxConns, req \in Requests : StaleRequest(id, req) /\ ServerFrame

SpecStale == Init /\ [][NextStale]_vars

\* ------------------------------------- requests and replies, per connection
\* the requests a peer writes: MaxSent different ones, in any order
OrderRequests == {JoinMatch("None"), Chat("hi"), GetGameInfo, PlayTurn(0)}

Scripts ==
    {sc \in [1..MaxSent -> OrderRequests] : \A i, j \in 1..MaxSent : sc[i] = sc[j] => i = j}

\* variant: recv hands out the newest request first
NextDecoded_newest(sc, k) == sc[Len(sc) + 1 - k]

\* the request the k-th piece of the peer's stream decodes to
NextDecoded(sc, k) == sc[k]

\* what the order bookkeeping leaves alone
OrderFrame == UNCHANGED <<game_vars, recv_vars, notify_vars, task_vars>>

\* a socket is accepted; its peer will write the requests of sc
OrderAccept(addr, sc) ==
    /\ HandleNewConnection(addr)
    /\ script' = [script EXCEPT ![next_conn_id] = sc]
    /\ UNCHANGED <<nread, handled, written>>
    /\ OrderFrame

\* the task's recv returns a request of its peer and the task forwards it;
\* requests the framing lost before it are skipped
OrderForward(c, k) ==
    /\ k > nread[c]
    /\ k <= Len(script[c])
    /\ ConnRequest(c, NextDecoded(script[c], k))
    /\ nread' = [nread EXCEPT ![c] = k]
    /\ UNCHANGED <<script, handled, written>>
    /\ OrderFrame

\* the actor handles the oldest queued request
OrderHandle ==
    /\ HandleRequest
    /\ handled' = [handled EXCEPT ![Head(req_rx).conn_id] =
                        Append(@, [req |-> Head(req_rx).req,
                                   rsp |-> reply'[Head(req_rx).conn_id]])]
    /\ UNCHANGED <<script, nread, written>>
    /\ OrderFrame

\* the task gets the reply to the request it forwarded and writes it
OrderReply(c, sent) ==
    /\ ConnReply(c, sent)
    /\ written' = IF sent
                  THEN [written EXCEPT ![c] =
                            Append(@, [req |-> NextDecoded(script[c], nread[c]),
                                       rsp |-> reply[c]])]
                  ELSE written
    /\ UNCHANGED <<script, nread, handled>>
    /\ OrderFrame

NextOrder ==
    \/ \E addr \in Addrs, sc \in Scripts : OrderAccept(addr, sc)
    \/ \E c \in 0..(MaxConns - 1), k \in 1..MaxSent : OrderForward(c, k)
    \/ OrderHandle
    \/ \E c \in 0..(MaxConns - 1), sent \in BOOLEAN : OrderReply(c, sent)
    \/ \E c \in 0..(MaxConns - 1) : HandleDisconnect(c) /\ ServerFrame
    \/ \E c \in 0..(MaxConns - 1) : ConnClose(c) /\ ServerFrame
    \/ \E c \in 0..(MaxConns - 1) : ConnPanic(c) /\ ServerFrame
    \/ \E c \in 0..(MaxConns - 1) : HandleJoinError(c) /\ ServerFrame

SpecOrder == Init /\ [][NextOrder]_vars

\* ------------------------------------- one task and its broadcast receiver
\* the variants of Notification
NotifTags == {"Chat", "ServerInfo"}

\* broadcast::Receiver::recv: a lag is reported first, then the retained
\* values in order, then Closed once the Sender is gone; "Pending" otherwise
BroadcastRecv(box, lag, alive) ==
    IF lag > 0 THEN "Lagged"
    ELSE IF box /= <<>> THEN "Ok"
    ELSE IF ~alive THEN "Closed"
    ELSE "Pending"

\* variant: every error of the receiver ends the task
on_recv_error_bail(err) == "broadcast_dropped"

\* the Err arms of the match on the notification: where the task is next
on_recv_error(err) ==
    IF err = "Lagged" THEN "select" ELSE "broadcast_dropped"

\* what the task and its channel leave alone
NotifyFrame == UNCHANGED <<server_vars, game_vars, recv_vars, order_vars, task_vars>>

InitNotify ==
    /\ ServerIdle
    /\ GameIdle
    /\ RecvIdle
    /\ OrderIdle
    /\ NotifyIdle
    /\ TaskIdle

\* the actor sends a notification: a full channel overwrites its oldest value
Publish(tag) ==
    /\ sender_alive
    /\ npublished < MaxPublished
    /\ npublished' = npublished + 1
    /\ IF Len(inbox) = BroadcastCap
       THEN inbox' = Append(Tail(inbox), tag) /\ skipped' = skipped + 1
       ELSE inbox' = Append(inbox, tag) /\ UNCHANGED skipped
    /\ UNCHANGED <<sender_alive, task, events>>
    /\ NotifyFrame

\* Server::run unwinds and the Server is dropped with its Sender
SenderDropped ==
    /\ sender_alive
    /\ sender_alive' = FALSE
    /\ UNCHANGED <<inbox, skipped, npublished, task, events>>
    /\ NotifyFrame

\* the arm notification = server.broadcast.recv()
TaskNotification(sent) ==
    /\ task = "select"
    /\ Len(events) < MaxEvents
    /\ \E got \in {BroadcastRecv(inbox, skipped, sender_alive)} :
        /\ got /= "Pending"
        /\ IF got = "Ok"
           THEN \* con.send(notification).await?
                /\ inbox' = Tail(inbox)
                /\ events' = IF sent THEN Append(events, Head(inbox)) ELSE events
                /\ task' = IF sent THEN "select" ELSE "io_error"
                /\ UNCHANGED skipped
           ELSE /\ events' = Append(events, got)
                /\ task' = on_recv_error(got)
                /\ skipped' = 0
                /\ UNCHANGED inbox
    /\ UNCHANGED <<npublished, sender_alive>>
    /\ NotifyFrame

\* the arm msg = con.recv() with a request: it is forwarded and its reply
\* written; with the Server gone the unwrap in ServerHandle::request panics
TaskRequest(sent) ==
    /\ task = "select"
    /\ Len(events) < MaxEvents
    /\ IF sender_alive
       THEN /\ events' = IF sent THEN Append(events, "Response") ELSE events
            /\ task' = IF sent THEN "select" ELSE "io_error"
       ELSE /\ task' = "panicked"
            /\ UNCHANGED events
    /\ UNCHANGED <<inbox, skipped, npublished, sender_alive>>
    /\ NotifyFrame

\* the arm msg = con.recv() with EOF or Disconnect: the loop is left
TaskEof ==
    /\ task = "select"
    /\ task' = "ok"
    /\ UNCHANGED <<inbox, skipped, npublished, sender_alive, events>>
    /\ NotifyFrame

NextNotify ==
    \/ \E tag \in NotifTags : Publish(tag)
    \/ SenderDropped
    \/ \E sent \in BOOLEAN : TaskNotification(sent)
    \/ \E sent \in BOOLEAN : TaskRequest(sent)
    \/ TaskEof

SpecNotify == InitNotify /\ [][NextNotify]_vars

\* ------------------------------------------------- a game through the engine
\* what the game engine leaves alone
EngineFrame == UNCHANGED <<server_vars, recv_vars, order_vars, notify_vars, task_vars>>

\* Game::new(first_turn)
InitGame ==
    /\ ServerIdle
    /\ RecvIdle
    /\ OrderIdle
    /\ NotifyIdle
    /\ TaskIdle
    /\ board = NewBoard
    /\ turn \in Player
    /\ result = "None"
    /\ conclusion = NoConclusion

\* Game::mark(tile) on a Game<InProgress>
Mark(tile) ==
    /\ result /= "Concluded"
    /\ IF ~is_valid_mark(board, tile)
       THEN /\ result' = "Retry"
            /\ UNCHANGED <<board, turn, conclusion>>
       ELSE /\ board' = BoardMark(board, tile, turn)
            /\ conclusion' = has_game_concluded(board')
            /\ IF conclusion' /= NoConclusion
               THEN result' = "Concluded" /\ turn' = "None"
               ELSE result' = "NextTurn" /\ turn' = next_turn(turn)
    /\ EngineFrame

NextGame == \E tile \in TileIds : Mark(tile)

SpecGame == InitGame /\ [][NextGame]_vars

\* -------------------------------------------- the conclusion check by itself
\* every board of nine tiles
Boards == [1..9 -> OptPlayer]

InitBoard ==
    /\ ServerIdle
    /\ RecvIdle
    /\ OrderIdle
    /\ NotifyIdle
    /\ TaskIdle
    /\ board \in Boards
    /\ turn = "None"
    /\ result = "None"
    /\ conclusion = NoConclusion

\* has_game_concluded applied to the board
CheckConcluded ==
    /\ result = "None"
    /\ result' = "Checked"
    /\ conclusion' = has_game_concluded(board)
    /\ UNCHANGED <<board, turn>>
    /\ EngineFrame

NextBoard == CheckConcluded

SpecBoard == InitBoard /\ [][NextBoard]_vars

\* ------------------------------------------- one Connection and its socket
\* a new Connection whose peer writes up to MaxMsgs requests and closes; the
\* bytes arrive cut into reads at any positions
InitRecv ==
    /\ ServerIdle
    /\ GameIdle
    /\ OrderIdle
    /\ NotifyIdle
    /\ TaskIdle
    /\ peer_msgs \in UNION {[1..n -> WireRequests] : n \in 1..MaxMsgs}
    /\ wire \in {Split(EncodeAll(peer_msgs), cuts, 1) :
                    cuts \in SUBSET (1..(2 * Len(peer_msgs) - 1))}
    /\ reads = wire
    /\ buffer = <<>>
    /\ returned = <<>>
    /\ reports = 0

\* handle_connection calls con.recv() again after every request it got
Recv ==
    /\ IF returned = <<>> THEN TRUE ELSE returned[Len(returned)].tag = "Some"
    /\ \E out \in {recv(buffer, reads, reports)} :
        /\ returned' = Append(returned, out.ret)
        /\ buffer' = out.buffer
        /\ reads' = out.reads
        /\ reports' = out.reports
    /\ UNCHANGED <<peer_msgs, wire>>
    /\ UNCHANGED <<server_vars, game_vars, order_vars, notify_vars, task_vars>>

NextRecv == Recv

SpecRecv == InitRecv /\ [][NextRecv]_vars

\* ------------------- one connection task, its socket, the actor, the channel
\* Poll::Pending of the future con.recv()
RecvPending == [tag |-> "Pending", req |-> Disconnect]

\* the unwrap of the failed write of a report (connection.rs:47-49)
RecvPanic == [tag |-> "Panic", req |-> Disconnect]

\* Connection::recv from read_buf on, as far as one poll of the future gets:
\* read_buf takes every byte that arrived, returns 0 at the end of the stream
\* and is pending on an open socket that has nothing; the decode follows each
\* read; reported tells whether the write of a report succeeds
RECURSIVE poll_recv(_, _, _, _, _)
poll_recv(buf, arrived, closed, n, reported) ==
    IF arrived = <<>>
    THEN [ret |-> IF ~closed THEN RecvPending
                  ELSE IF buf = <<>> THEN RecvNone ELSE RecvErr,
          buffer |-> buf, reports |-> n]
    ELSE LET d == from_bytes(buf \o arrived)
         IN IF d.code = "Ok"
            THEN [ret |-> RecvSome(d.req), buffer |-> buf \o arrived, reports |-> n]
            ELSE IF d.code = "Invalid"
            THEN IF reported
                 THEN poll_recv(<<>>, <<>>, closed, n + 1, reported)
                 ELSE [ret |-> RecvPanic, buffer |-> buf \o arrived, reports |-> n]
            ELSE poll_recv(buf \o arrived, <<>>, closed, n, reported)

\* variant: the reply to a forwarded request is a third branch of the select
in_select_or_request(pc) == pc \in {"select", "recv", "awaiting"}

\* the task is in tokio::select!: at the top of the loop ("select"), or with
\* the future con.recv() polled and pending on read_buf ("recv")
in_select(pc) == pc \in {"select", "recv"}

\* what the task, its socket and its slot leave alone
TaskFrame == UNCHANGED <<server_vars, game_vars, order_vars>>

\* a new task on a new Connection; the peer writes up to MaxMsgs requests
\* whose bytes arrive piece by piece
InitTask ==
    /\ ServerIdle
    /\ GameIdle
    /\ OrderIdle
    /\ NotifyIdle
    /\ TaskIdle
    /\ peer_msgs \in UNION {[1..n -> WireRequests] : n \in 1..MaxMsgs}
    /\ wire = Split(EncodeAll(peer_msgs), 1..(2 * Len(peer_msgs)), 1)
    /\ reads = wire
    /\ buffer = <<>>
    /\ returned = <<>>
    /\ reports = 0

\* the next bytes of the peer arrive
Arrive ==
    /\ reads /= <<>>
    /\ avail' = avail \o Head(reads)
    /\ reads' = Tail(reads)
    /\ UNCHANGED <<peer_msgs, wire, buffer, returned, reports, eof, rx>>
    /\ UNCHANGED notify_vars
    /\ TaskFrame

\* the peer closes its end
PeerClose ==
    /\ reads = <<>>
    /\ ~eof
    /\ eof' = TRUE
    /\ UNCHANGED <<peer_msgs, wire, reads, buffer, returned, reports, avail, rx>>
    /\ UNCHANGED notify_vars
    /\ TaskFrame

\* the branch notification = server.broadcast.recv() completes; select! drops
\* the future con.recv(), polled or not, and the loop starts over
SelectNotification(sent) ==
    /\ in_select(task)
    /\ Len(events) < MaxEvents
    /\ \E got \in {BroadcastRecv(inbox, skipped, sender_alive)} :
        /\ got /= "Pending"
        /\ IF got = "Ok"
           THEN \* con.send(notification).await?
                /\ inbox' = Tail(inbox)
                /\ events' = IF sent THEN Append(events, Head(inbox)) ELSE events
                /\ task' = IF sent THEN "select" ELSE "io_error"
                /\ UNCHANGED skipped
           ELSE /\ events' = Append(events, got)
                /\ task' = on_recv_error(got)
                /\ skipped' = 0
                /\ UNCHANGED inbox
    /\ UNCHANGED <<npublished, sender_alive>>
    /\ UNCHANGED <<recv_vars, task_vars>>
    /\ TaskFrame

\* the future con.recv() is polled: for the first time at the top of the loop,
\* where recv clears the buffer, or again because the socket became readable;
\* a request it returns is forwarded by ServerHandle::request
PollRecv(reported) ==
    /\ in_select(task)
    /\ task = "recv" => (avail /= <<>> \/ eof)
    /\ Len(events) < MaxEvents
    /\ \E out \in {poll_recv(IF task = "select" THEN <<>> ELSE buffer,
                             avail, eof, reports, reported)} :
        /\ buffer' = out.buffer
        /\ reports' = out.reports
        /\ avail' = <<>>
        /\ events' = IF out.reports > reports
                     THEN Append(events, "InvalidMessage") ELSE events
        /\ returned' = IF out.ret.tag = "Some"
                       THEN Append(returned, out.ret) ELSE returned
        /\ IF out.ret.tag = "Pending" THEN task' = "recv" /\ UNCHANGED rx
           ELSE IF out.ret.tag = "None" THEN task' = "ok" /\ UNCHANGED rx
           ELSE IF out.ret.tag = "Err" THEN task' = "io_error" /\ UNCHANGED rx
           ELSE IF out.ret.tag = "Panic" THEN task' = "panicked" /\ UNCHANGED rx
           ELSE IF out.ret.req = Disconnect THEN task' = "ok" /\ UNCHANGED rx
           ELSE IF sender_alive
           THEN \* req_tx.send((req, tx)).await, then rx.await
                task' = "awaiting" /\ rx' = "Pending"
           ELSE \* the unwrap of the failed send
                task' = "panicked" /\ UNCHANGED rx
    /\ UNCHANGED <<peer_msgs, wire, reads, eof>>
    /\ UNCHANGED <<inbox, skipped, npublished, sender_alive>>
    /\ TaskFrame

\* the actor handles the request and fills its slot: rsp.send(r)
ActorReplies ==
    /\ sender_alive
    /\ rx = "Pending"
    /\ rx' = "Ready"
    /\ UNCHANGED <<avail, eof>>
    /\ UNCHANGED <<recv_vars, notify_vars>>
    /\ TaskFrame

\* rx.await returns the reply and the task writes it
WriteReply(sent) ==
    /\ task = "awaiting"
    /\ rx = "Ready"
    /\ Len(events) < MaxEvents
    /\ rx' = "None"
    /\ events' = IF sent THEN Append(events, "Response") ELSE events
    /\ task' = IF sent THEN "select" ELSE "io_error"
    /\ UNCHANGED <<inbox, skipped, npublished, sender_alive>>
    /\ UNCHANGED <<avail, eof>>
    /\ UNCHANGED recv_vars
    /\ TaskFrame

\* the Server was dropped with the request in its queue: rx.await.unwrap()
ReplyDropped ==
    /\ task = "awaiting"
    /\ rx = "Pending"
    /\ ~sender_alive
    /\ rx' = "None"
    /\ task' = "panicked"
    /\ UNCHANGED <<inbox, skipped, npublished, sender_alive, events>>
    /\ UNCHANGED <<avail, eof>>
    /\ UNCHANGED recv_vars
    /\ TaskFrame

NextTask ==
    \/ Arrive
    \/ PeerClose
    \/ \E tag \in NotifTags : Publish(tag)
    \/ SenderDropped
    \/ \E sent \in BOOLEAN : SelectNotification(sent)
    \/ \E reported \in BOOLEAN : PollRecv(reported)
    \/ ActorReplies
    \/ \E sent \in BOOLEAN : WriteReply(sent)
    \/ ReplyDropped

SpecTask == InitTask /\ [][NextTask]_vars

TypeOK ==
    /\ state \in {"WaitingForHost", "WaitingForPlayers", "Playing"}
    /\ (state = "Playing") = (game /= NoGame)
    /\ actor \in {"running", "panicked", "assert_failed", "expect_failed", "join_error"}
    /\ DOMAIN contexts \subseteq 0..(next_conn_id - 1)

\* ---------------------------------------------------------------- claims
\* the step is handle_request on a request of the given variant sent by a
\* registered connection (no other step shortens the queue)
Handles(type) ==
    /\ Len(req_rx') < Len(req_rx)
    /\ Head(req_rx).req.type = type
    /\ Head(req_rx).conn_id \in DOMAIN contexts

\* the connection whose request is handled, and the request
Requester == Head(req_rx).conn_id

Request == Head(req_rx).req

\* position of a ServerState along WaitingForHost -> WaitingForPlayers -> Playing
Rank(st) ==
    CASE st = "WaitingForHost" -> 0
      [] st = "WaitingForPlayers" -> 1
      [] st = "Playing" -> 2

\* registered connections that hold a color
Holders(ctxs) == {c \in DOMAIN ctxs : player(ctxs[c]) /= "None"}

\* C1: SessionState never moves back to an earlier phase and never goes from
\* WaitingForHost directly to Playing, whatever accepts, requests and
\* disconnects are processed.
C1_StateMovesForward ==
    [][/\ Rank(state') >= Rank(state)
       /\ ~(state = "WaitingForHost" /\ state' = "Playing")]_vars

\* a disconnect was processed while Playing and the state is still Playing
C1_Witness == state = "Playing" /\ action.kind = "Disconnected"

\* C2: a JoinMatch(c) of a Host connection handled in WaitingForHost makes its
\* role Host(Some(color)), color being c or the default color O when c is
\* None, moves SessionState to WaitingForPlayers and is answered Joined(color).
C2_HostJoinClaimsColor ==
    [][(Handles("JoinMatch") /\ state = "WaitingForHost" /\ is_host(contexts[Requester]))
       => LET color == IF Request.player = "None" THEN "O" ELSE Request.player
          IN /\ contexts'[Requester].group = GroupHost(color)
             /\ state' = "WaitingForPlayers"
             /\ reply'[Requester] = Joined(color)]_vars

\* C3: a JoinMatch(c) from a connection without a color handled in
\* WaitingForPlayers assigns the opposite of the color another registered
\* connection holds, else c, else O; the reply is Joined(assigned) and the
\* requester's role records the assigned color.
C3_JoinAssignsColor ==
    [][(Handles("JoinMatch") /\ state = "WaitingForPlayers"
            /\ player(contexts[Requester]) = "None")
       => LET others == {player(contexts[d]) : d \in Holders(contexts) \ {Requester}}
              assigned == player(contexts'[Requester])
          IN /\ assigned \in Player
             /\ others /= {} => others = {Not(assigned)}
             /\ others = {} => assigned = (IF Request.player = "None" THEN "O"
                                           ELSE Request.player)
             /\ reply'[Requester] = Joined(assigned)
             /\ contexts'[Requester].group =
                    IF contexts[Requester].group = GroupObserver
                    THEN GroupPlayer(assigned) ELSE GroupHost(assigned)]_vars

\* the host holds O and a second connection that asked to join was given X
C3_Witness ==
    /\ action = Action("Request", "JoinMatch")
    /\ \E c \in DOMAIN contexts, d \in DOMAIN contexts :
        /\ contexts[d].group = GroupHost("O")
        /\ contexts[c].group = GroupPlayer("X")
        /\ reply[c] = Joined("X")

\* a JoinMatch of a connection without a color is handled in WaitingForPlayers
\* while another registered connection holds a color
JoinsSecond ==
    /\ Handles("JoinMatch")
    /\ state = "WaitingForPlayers"
    /\ player(contexts[Requester]) = "None"
    /\ Holders(contexts) \ {Requester} /= {}

\* C4: SessionState becomes Playing exactly on a successful JoinMatch in
\* WaitingForPlayers while another connection holds a color; then exactly two
\* connections hold colors, opposite ones, and the game is new with O to move.
C4_PlayingStarts ==
    [][/\ (state /= "Playing" /\ state' = "Playing") <=> JoinsSecond
       /\ (state /= "Playing" /\ state' = "Playing") =>
            /\ reply'[Requester].tag = "Joined"
            /\ Cardinality(Holders(contexts')) = 2
            /\ {player(contexts'[c]) : c \in Holders(contexts')} = Player
            /\ game' = [board |-> [i \in 1..9 |-> "None"], turn |-> "O"]]_vars

\* the host joined as X, the second connection was given O, O moves first
C4_Witness ==
    /\ action = Action("Request", "JoinMatch")
    /\ state = "Playing"
    /\ game.turn = "O"
    /\ \A i \in 1..9 : game.board[i] = "None"
    /\ \E c \in DOMAIN contexts, d \in DOMAIN contexts :
        /\ contexts[d].group = GroupHost("X")
        /\ contexts[c].group = GroupPlayer("O")
        /\ reply[c] = Joined("O")

\* C5: at most one registered connection holds a Host role; a connection
\* accepted from a loopback address starts as Host(None), any other as Observer.
C5_SingleHost ==
    [][contexts' /= contexts =>
        /\ Cardinality({c \in DOMAIN contexts' : is_host(contexts'[c])}) <= 1
        /\ \A c \in DOMAIN contexts' \ DOMAIN contexts :
            contexts'[c].group =
                IF is_loopback(contexts'[c].addr) THEN GroupHost("None") ELSE GroupObserver]_vars

\* C6: the role of a registered connection changes only as Observer ->
\* Player(c) or Host(None) -> Host(Some(c)), hence at most once, and a color
\* once held is never changed or cleared.
C6_RoleChangesOnce ==
    [][\A c \in DOMAIN contexts \cap DOMAIN contexts' :
        \/ contexts'[c].group = contexts[c].group
        \/ /\ contexts[c].group = GroupObserver
           /\ contexts'[c].group \in {GroupPlayer(p) : p \in Player}
        \/ /\ contexts[c].group = GroupHost("None")
           /\ contexts'[c].group \in {GroupHost(p) : p \in Player}]_vars

\* a connection holding a color asked to join again and was refused
C6_Witness ==
    /\ action = Action("Request", "JoinMatch")
    /\ state = "WaitingForPlayers"
    /\ \E c \in Holders(contexts) : reply[c] = ErrText("InvalidParam", "already joined")

\* C7: a JoinMatch from a connection that holds a color, and any JoinMatch
\* handled while Playing, is answered with an error (MatchInProgress while
\* Playing, already-joined otherwise) and changes no role, state or game.
C7_JoinRejected ==
    [][(Handles("JoinMatch")
            /\ (player(contexts[Requester]) /= "None" \/ state = "Playing"))
       => /\ reply'[Requester] = IF state = "Playing" THEN Err("MatchInProgress")
                                 ELSE ErrText("InvalidParam", "already joined")
          /\ UNCHANGED <<contexts, state, game>>]_vars

\* one connection was refused as already joined, another with MatchInProgress
C7_Witness ==
    /\ action = Action("Request", "JoinMatch")
    /\ state = "Playing"
    /\ \E c \in DOMAIN contexts, d \in DOMAIN contexts :
        /\ reply[c] = Err("MatchInProgress")
        /\ reply[d] = ErrText("InvalidParam", "already joined")

\* C8: while WaitingForHost every request other than Chat and other than a
\* JoinMatch of a Host connection is answered Error WaitingForHost and changes
\* no state.
C8_WaitingForHostError ==
    [][(/\ \E type \in {"PlayTurn", "GetGameInfo", "JoinMatch"} : Handles(type)
        /\ state = "WaitingForHost"
        /\ ~(Request.type = "JoinMatch" /\ is_host(contexts[Requester])))
       => /\ reply'[Requester] = Err("WaitingForHost")
          /\ UNCHANGED <<contexts, state, game>>]_vars

\* C9: a PlayTurn handled in WaitingForPlayers is answered Error NotAllowed,
\* whoever sends it, and leaves roles and SessionState unchanged.
C9_PlayTurnNotAllowed ==
    [][(Handles("PlayTurn") /\ state = "WaitingForPlayers")
       => /\ reply'[Requester] = Err("NotAllowed")
          /\ UNCHANGED <<contexts, state, game>>]_vars

\* a PlayTurn was processed in WaitingForPlayers and refused
C9_Witness ==
    /\ action = Action("Request", "PlayTurn")
    /\ state = "WaitingForPlayers"
    /\ actor = "running"
    /\ \E c \in DOMAIN contexts : reply[c] = Err("NotAllowed")

\* the move PlayTurn(t) of connection c is on an empty tile of the board and
\* c holds the color that has the turn
ValidMove(c, t) ==
    /\ t \in 0..8
    /\ game.board[t + 1] = "None"
    /\ player(contexts[c]) = game.turn

\* C10: a PlayTurn(tile) handled while Playing is validated and answered: a
\* valid move is applied and answered TurnDone(game), any other is answered
\* with a typed Error and leaves the game unchanged; the actor keeps running.
C10_PlayTurnAnswered ==
    [][(Handles("PlayTurn") /\ state = "Playing")
       => /\ actor' = "running"
          /\ IF ValidMove(Requester, Request.tile)
             THEN /\ reply'[Requester].tag = "TurnDone"
                  /\ reply'[Requester].game = game'
                  /\ game'.board[Request.tile + 1] = game.turn
             ELSE /\ reply'[Requester] /= NoRsp
                  /\ ~reply'[Requester].ok
                  /\ game' = game]_vars

\* the label the sender of a Chat is announced with, by role
RoleLabel(cx) ==
    IF cx.group = GroupObserver THEN cx.addr
    ELSE IF cx.group = GroupHost("None") THEN "host"
    ELSE IF cx.group.tag = "Host" THEN cx.group.player \o " (host)"
    ELSE cx.group.player

\* C11: a Chat(msg) from a registered connection is accepted in every
\* SessionState: exactly one Chat{from, msg} is published, from being the
\* sender's role label, the reply is Ack, and no role or SessionState changes.
C11_ChatPublished ==
    [][Handles("Chat")
       => /\ published' = <<[tag |-> "Chat", from |-> RoleLabel(contexts[Requester]),
                             msg |-> Request.msg]>>
          /\ reply'[Requester] = Ack
          /\ UNCHANGED <<contexts, state, game>>]_vars

\* a host that holds X chatted while Playing and was acknowledged
C11_Witness ==
    /\ action = Action("Request", "Chat")
    /\ state = "Playing"
    /\ published = <<NotifChat("X (host)", "hi")>>
    /\ \E c \in DOMAIN contexts : contexts[c].group = GroupHost("X") /\ reply[c] = Ack

\* the step is handle_disconnect: a context leaves the registry
Disconnects == \E c \in DOMAIN contexts : c \notin DOMAIN contexts'

\* what handle_disconnect leaves alone: SessionState, the game and the
\* context of every connection that stays
DisconnectFrame ==
    /\ Cardinality(DOMAIN contexts \ DOMAIN contexts') = 1
    /\ \A c \in DOMAIN contexts' : c \in DOMAIN contexts /\ contexts'[c] = contexts[c]
    /\ UNCHANGED <<state, game>>

C17_FailureIsolated ==
    [][(\E c \in DOMAIN connections :
            connections[c] \in {"done", "panicked"} /\ c \notin DOMAIN connections')
       => /\ actor' = "running"
          /\ \A d \in DOMAIN connections' : connections'[d] = connections[d]]_vars

\* place of a request in a peer's script
Pos(req, sc) == CHOOSE k \in 1..Len(sc) : sc[k] = req

\* the requests of log are requests of sc, in the order sc has them
InOrder(log, sc) ==
    /\ \A i \in 1..Len(log) : \E k \in 1..Len(sc) : sc[k] = log[i].req
    /\ \A i, j \in 1..Len(log) : i < j => Pos(log[i].req, sc) < Pos(log[j].req, sc)

\* C14: the requests one connection sent are handled in the order it sent
\* them, and their replies are written to its socket in that same order,
\* whatever other connections send and whatever accepts and disconnects
\* happen in between.
C14_OrderKept ==
    \A c \in 0..(MaxConns - 1) :
        /\ InOrder(handled[c], script[c])
        /\ Len(written[c]) <= Len(handled[c])
        /\ \A i \in 1..Len(written[c]) : written[c][i] = handled[c][i]

\* a connection got both its requests answered while another connection,
\* accepted before it, had a request handled and was removed
C14_Witness ==
    /\ Len(written[1]) = MaxSent
    /\ Len(handled[0]) >= 1
    /\ 0 \notin DOMAIN contexts
    /\ 1 \in DOMAIN contexts

\* the task took a signal of its broadcast receiver in this step
Signalled(err) == Len(events') > Len(events) /\ events'[Len(events')] = err

\* C15: a lag signal of the broadcast never ends a connection task, which
\* stays in its loop for requests and later notifications; the signal that
\* the publisher is gone ends the task with an error.
C15_LagTolerated ==
    [][/\ Signalled("Lagged") => (task' = "select" /\ skipped > 0)
       /\ Signalled("Closed") => (task' = "broadcast_dropped" /\ ~sender_alive)
       /\ (task = "select" /\ task' = "broadcast_dropped") => Signalled("Closed")]_notify_vars

\* after a lag the task delivered a later notification and answered a request
C15_Witness ==
    /\ task = "select"
    /\ Len(events) >= 3
    /\ events[1] = "Lagged"
    /\ \E i, j \in 2..Len(events) : events[i] \in NotifTags /\ events[j] = "Response"

\* C18: a request whose connection id is not in the registry is dropped
\* silently: its reply slot is not filled, nothing is published, and the
\* registry, the roles and SessionState stay as they are.
C18_UnknownDropped ==
    [][(Len(req_rx') < Len(req_rx) /\ Head(req_rx).conn_id \notin DOMAIN contexts)
       => /\ reply[Requester] = NoRsp
          /\ reply' = reply
          /\ published' = <<>>
          /\ UNCHANGED <<contexts, state, game, connections, actor>>]_vars

\* a request was processed while no connection was registered: it went
\* unanswered and the actor runs on
C18_Witness ==
    /\ action.kind = "Request"
    /\ contexts = <<>>
    /\ req_rx = <<>>
    /\ published = <<>>
    /\ actor = "running"
    /\ \E id \in DOMAIN reply : reply[id] = NoRsp

\* the 8 lines of the board: rows, columns, diagonals, as sets of tiles
Lines == {{1, 2, 3}, {4, 5, 6}, {7, 8, 9}, {1, 4, 7}, {2, 5, 8}, {3, 6, 9}, {1, 5, 9}, {3, 5, 7}}

\* player p holds all three tiles of some line
Owns(b, p) == \E l \in Lines : \A i \in l : b[i] = p

Occupied(b) == {i \in 1..9 : b[i] /= "None"}

\* C19: on a board where at most one player owns a complete line the check
\* returns None below 3 occupied tiles; otherwise Win(p) exactly when p owns a
\* line, Draw exactly when nobody does and all 9 tiles are occupied, and None
\* in every other case.
C19_ConclusionCheck ==
    (result = "Checked" /\ ~(Owns(board, "O") /\ Owns(board, "X")))
    => IF Cardinality(Occupied(board)) < 3
       THEN conclusion = [tag |-> "None", player |-> "None"]
       ELSE /\ \A p \in Player :
                 (conclusion = [tag |-> "Win", player |-> p]) <=> Owns(board, p)
            /\ (conclusion = [tag |-> "Draw", player |-> "None"])
                 <=> (~Owns(board, "O") /\ ~Owns(board, "X") /\ Occupied(board) = 1..9)
            /\ (conclusion = [tag |-> "None", player |-> "None"])
                 <=> (~Owns(board, "O") /\ ~Owns(board, "X") /\ Occupied(board) /= 1..9)

\* O alone on A1, B1, C1 was found to have won
C19_Witness ==
    /\ result = "Checked"
    /\ board = [i \in 1..9 |-> IF i \in {1, 2, 3} THEN "O" ELSE "None"]
    /\ conclusion = Win("O")

\* C20: over any sequence of Game::mark calls an occupied tile is never
\* cleared or reassigned; a mark on an occupied tile is answered Retry and
\* leaves board, mark count and player to move unchanged; each accepted mark
\* raises the mark count by exactly one.
C20_MarksKept ==
    [][/\ \A i \in 1..9 : board[i] /= "None" => board'[i] = board[i]
       /\ (\E i \in 1..9 : board'[i] /= board[i])
            => /\ result' \in {"NextTurn", "Concluded"}
               /\ Cardinality(Occupied(board')) = Cardinality(Occupied(board)) + 1
       /\ board' = board
            => /\ result' = "Retry"
               /\ turn' = turn]_game_vars

\* a mark on an occupied tile was refused in a game under way
C20_Witness ==
    /\ result = "Retry"
    /\ Cardinality(Occupied(board)) = 4
    /\ turn \in Player

\* number of tiles of b that p holds
Marks(b, p) == Cardinality({i \in 1..9 : b[i] = p})

\* the conclusion a board stands for: a win of the player who owns a line, a
\* draw when nobody does and the board is full, none otherwise
Concludes(b) ==
    IF Owns(b, "O") THEN [tag |-> "Win", player |-> "O"]
    ELSE IF Owns(b, "X") THEN [tag |-> "Win", player |-> "X"]
    ELSE IF Occupied(b) = 1..9 THEN [tag |-> "Draw", player |-> "None"]
    ELSE [tag |-> "None", player |-> "None"]

\* C21: from Game::new(first_turn) every accepted mark is made by the player
\* to move and either concludes the game with the conclusion its board stands
\* for or flips the turn, so marks alternate beginning with first_turn; a
\* concluded game changes no more.
C21_TurnsAlternate ==
    [][/\ result /= "Concluded"
       /\ Marks(board, turn) <= Marks(board, Not(turn))
       /\ Marks(board, Not(turn)) <= Marks(board, turn) + 1
       /\ board' /= board
            => /\ \E i \in 1..9 :
                    /\ board[i] = "None"
                    /\ board' = [board EXCEPT ![i] = turn]
               /\ ~(Owns(board', "O") /\ Owns(board', "X"))
               /\ IF Concludes(board').tag /= "None"
                  THEN /\ result' = "Concluded"
                       /\ conclusion' = Concludes(board')
                  ELSE /\ result' = "NextTurn"
                       /\ turn' = Not(turn)
                       /\ conclusion' = [tag |-> "None", player |-> "None"]]_game_vars

\* the player who moved second completed a line with the sixth mark
C21_Witness ==
    /\ result = "Concluded"
    /\ conclusion = Win("X")
    /\ Marks(board, "X") = 3
    /\ Marks(board, "O") = 3

\* C25: a partially received message is never lost. The task is back at the
\* top of its loop with part of a message in the buffer only after the
\* notification branch completed while con.recv() was pending on the rest;
\* when the rest has arrived and the task reads it (the socket and the actor
\* working), the message is returned by recv and forwarded, and no
\* InvalidMessage report is written.
C25_PartialKept ==
    [][(/\ task = "select"
        /\ buffer /= <<>>
        /\ from_bytes(buffer).code = "Eof"
        /\ from_bytes(buffer \o avail).code = "Ok"
        /\ avail' /= avail
        /\ task' /= "panicked")
          => /\ returned' = Append(returned, RecvSome(from_bytes(buffer \o avail).req))
             /\ reports' = reports
             /\ task' = "awaiting"]_<<notify_vars, recv_vars, task_vars>>

\* C24 as stated: the wait for the reply is raced with the two others, so
\* whenever the task waits for a reply that has not arrived and its receiver
\* holds a notification, the task can write that notification to the socket.
C24_ThreeWaitsRaced ==
    (/\ task = "awaiting"
     /\ rx = "Pending"
     /\ Len(events) < MaxEvents
     /\ BroadcastRecv(inbox, skipped, sender_alive) = "Ok")
        => ENABLED (NextTask /\ events' = Append(events, Head(inbox)))

\* C24: the wait for the next client request and the wait for the next
\* notification are raced; the wait for a reply is not: while the task waits
\* for a reply it takes nothing from its receiver and nothing from its socket,
\* the only thing it writes is that reply, and a notification is written only
\* from the select.
C24_ReplyAwaitedAlone ==
    [][/\ task = "awaiting"
          => /\ events' /= events
                => rx = "Ready" /\ events' = Append(events, "Response")
             /\ <<inbox, skipped>>' /= <<inbox, skipped>> => npublished' = npublished + 1
             /\ buffer' = buffer
             /\ \E more \in {<<>>} \cup {Head(reads) : r \in {reads} \ {<<>>}} :
                    avail' = avail \o more
       /\ (events' /= events /\ events'[Len(events')] \in NotifTags)
          => /\ task \in {"select", "recv"}
             /\ task' \in {"select", "io_error"}]_<<notify_vars, recv_vars, task_vars>>

\* a notification is in the receiver, the reply has arrived and is not
\* written yet: nothing was written since the request was forwarded
C24_Witness ==
    /\ task = "awaiting"
    /\ rx = "Ready"
    /\ inbox /= <<>>
    /\ skipped = 0
    /\ events = <<>>

\* C23: every request a connection task forwards is eventually answered
\* through its reply slot and the reply written to the socket, under fair
\* scheduling and a working socket, whatever the request and the SessionState:
\* a task that awaits a reply gets back to its loop.
C23_RequestsAnswered ==
    \A c \in 0..(MaxConns - 1) :
        (c \in DOMAIN connections /\ connections[c] = "awaiting")
            ~> (c \in DOMAIN connections /\ connections[c] = "select")

\* C22: on every board reached by alternating play from the empty board no
\* line is complete below 5 occupied tiles and the two players never both own
\* a line; so the check of game.rs (skips below 3 marks), the check of main.rs
\* (skips up to 3 marks) and a check that looks only from 5 marks on return
\* the same result.
C22_ChecksAgree ==
    /\ Cardinality(Occupied(board)) < 5 => (~Owns(board, "O") /\ ~Owns(board, "X"))
    /\ ~(Owns(board, "O") /\ Owns(board, "X"))
    /\ has_game_concluded(board) = has_game_concluded_main(board)
    /\ has_game_concluded(board) =
            IF Cardinality(Occupied(board)) >= 5 THEN Concludes(board)
            ELSE [tag |-> "None", player |-> "None"]

\* the first player completed a line with the fifth mark, and main.rs's check
\* finds it too
C22_Witness ==
    /\ result = "Concluded"
    /\ Cardinality(Occupied(board)) = 5
    /\ \E p \in Player : Owns(board, p) /\ has_game_concluded_main(board) = Win(p)

\* the peer's bytes arrive as one read holding its first message and the
\* first half of its second, then a read holding the remainder
SplitReads ==
    /\ Len(peer_msgs) = 2
    /\ wire = <<Encode(peer_msgs[1]) \o <<Piece(peer_msgs[2], 1)>>, <<Piece(peer_msgs[2], 2)>>>>

\* C16: when one read holds a complete message plus the first half of a
\* second and the next read holds the remainder, successive recv calls return
\* the messages one at a time in sending order, none is lost and no protocol
\* error is reported.
C16_SplitReadsDecoded ==
    SplitReads
    => /\ reports = 0
       /\ \A i \in 1..Len(returned) :
            returned[i] = IF i <= Len(peer_msgs) THEN [tag |-> "Some", req |-> peer_msgs[i]]
                          ELSE RecvNone

====
